---- MODULE Spec2Model ----
(***************************************************************************)
(* State-machine model of the to-do list of src/index.tsx: the in-memory   *)
(* task list, the editing cursor, the localStorage entry "tasks", the add  *)
(* form with its delayed callback and the delayed initial load.            *)
(*                                                                         *)
(* Strings are sequences of one-character strings.  The value stored under *)
(* "tasks" is a sequence of JSON lexemes: the punctuation and the quoted   *)
(* keys are single lexemes, numbers are written digit by digit and string  *)
(* contents character by character with JSON escaping.                     *)
(***************************************************************************)
EXTENDS Integers, Sequences, FiniteSets, TLC

\* ---------------------------------------------------------------- bounds
\* Date.now() when the page is loaded (ms).
PageLoadTime == 1000
\* How far the clock advances in one step of the model (ms).
TimeStep == 100
\* The clock stops advancing this many ms after the page load.
Horizon == 600
\* Submissions are no longer accepted once this many tasks exist or are
\* pending, nor when their callback would run after the horizon.
MaxTasks == 3

\* ------------------------------------------------------ program constants
\* setTimeout(..., 300) of the submit handler.
AddDelay == 300
\* setTimeout(..., 500) of initializeApp.
LoadDelay == 500
\* editingId = null.
Null == -1

\* An id that no task ever has: the argument of an operation called with an
\* id that is not in the list.
AbsentId == 7

\* ------------------------------------------------------------- strings
Space == " "
Quote == "\""
Backslash == "\\"

\* What the user may have typed in a text field.
InputTexts ==
  { <<>>, <<Space, Space>>, <<"a">>, <<Space, "b", Quote, Space>> }

RECURSIVE TrimStart(_)
TrimStart(s) ==
  IF s # <<>> /\ Head(s) = Space THEN TrimStart(Tail(s)) ELSE s

RECURSIVE TrimEnd(_)
TrimEnd(s) ==
  IF s # <<>> /\ s[Len(s)] = Space THEN TrimEnd(SubSeq(s, 1, Len(s) - 1)) ELSE s

\* String.prototype.trim
Trim(s) == TrimEnd(TrimStart(s))

\* ------------------------------------------------ JSON.stringify(tasks)
DigitChars == <<"0", "1", "2", "3", "4", "5", "6", "7", "8", "9">>

RECURSIVE NumberToJSON(_)
NumberToJSON(n) ==
  IF n < 10 THEN <<DigitChars[n + 1]>>
  ELSE NumberToJSON(n \div 10) \o <<DigitChars[(n % 10) + 1]>>

RECURSIVE EscapeChars(_)
EscapeChars(s) ==
  IF s = <<>> THEN <<>>
  ELSE (IF Head(s) \in {Quote, Backslash} THEN <<Backslash, Head(s)>>
        ELSE <<Head(s)>>) \o EscapeChars(Tail(s))

StringToJSON(s) == <<Quote>> \o EscapeChars(s) \o <<Quote>>

TaskToJSON(t) ==
  <<"{", "\"id\":">> \o NumberToJSON(t.id)
  \o <<",", "\"text\":">> \o StringToJSON(t.text)
  \o <<",", "\"completed\":", IF t.completed THEN "true" ELSE "false", "}">>

RECURSIVE TasksToJSON(_)
TasksToJSON(ts) ==
  IF ts = <<>> THEN <<>>
  ELSE IF Len(ts) = 1 THEN TaskToJSON(ts[1])
  ELSE TaskToJSON(ts[1]) \o <<",">> \o TasksToJSON(Tail(ts))

\* JSON.stringify of an array of Task records.
Stringify(ts) == <<"[">> \o TasksToJSON(ts) \o <<"]">>

\* ------------------------------------------------------ JSON.parse(text)
\* Every parser returns [ok, val, pos]: whether the text matched from the
\* position it was given, the value read and the position after it.
Failure == [ok |-> FALSE, val |-> <<>>, pos |-> 0]

At(s, p) == IF p >= 1 /\ p <= Len(s) THEN s[p] ELSE "<eof>"

DigitValue(c) == CHOOSE d \in 0..9 : DigitChars[d + 1] = c

IsDigit(c) == \E d \in 0..9 : DigitChars[d + 1] = c

RECURSIVE ParseDigits(_, _, _)
ParseDigits(s, p, acc) ==
  IF IsDigit(At(s, p)) THEN ParseDigits(s, p + 1, acc * 10 + DigitValue(At(s, p)))
  ELSE [ok |-> TRUE, val |-> acc, pos |-> p]

ParseNumber(s, p) ==
  IF IsDigit(At(s, p)) THEN ParseDigits(s, p, 0)
  ELSE [ok |-> FALSE, val |-> 0, pos |-> 0]

RECURSIVE ParseChars(_, _, _)
ParseChars(s, p, acc) ==
  IF p > Len(s) THEN Failure
  ELSE IF s[p] = Quote THEN [ok |-> TRUE, val |-> acc, pos |-> p + 1]
  ELSE IF s[p] = Backslash
    THEN IF At(s, p + 1) \in {Quote, Backslash}
         THEN ParseChars(s, p + 2, Append(acc, s[p + 1]))
         ELSE Failure
  ELSE ParseChars(s, p + 1, Append(acc, s[p]))

ParseString(s, p) ==
  IF At(s, p) = Quote THEN ParseChars(s, p + 1, <<>>) ELSE Failure

ParseBoolean(s, p) ==
  IF At(s, p) = "true" THEN [ok |-> TRUE, val |-> TRUE, pos |-> p + 1]
  ELSE IF At(s, p) = "false" THEN [ok |-> TRUE, val |-> FALSE, pos |-> p + 1]
  ELSE [ok |-> FALSE, val |-> FALSE, pos |-> 0]

NoTask == [id |-> 0, text |-> <<>>, completed |-> FALSE]

TaskFailure == [ok |-> FALSE, val |-> NoTask, pos |-> 0]

\* The one element of a set of one element.  The parsers below bind each
\* intermediate result as the element of such a set, so that it is
\* evaluated once however many times it is used.
The(S) == CHOOSE y \in S : TRUE

ParseTask(s, p) ==
  IF At(s, p) # "{" \/ At(s, p + 1) # "\"id\":" THEN TaskFailure
  ELSE The({
    IF ~n.ok \/ At(s, n.pos) # "," \/ At(s, n.pos + 1) # "\"text\":" THEN TaskFailure
    ELSE The({
      IF ~t.ok \/ At(s, t.pos) # "," \/ At(s, t.pos + 1) # "\"completed\":" THEN TaskFailure
      ELSE The({
        IF ~c.ok \/ At(s, c.pos) # "}" THEN TaskFailure
        ELSE [ok |-> TRUE,
              val |-> [id |-> n.val, text |-> t.val, completed |-> c.val],
              pos |-> c.pos + 1]
        : c \in {ParseBoolean(s, t.pos + 2)} })
      : t \in {ParseString(s, n.pos + 2)} })
    : n \in {ParseNumber(s, p + 2)} })

RECURSIVE ParseElements(_, _, _)
ParseElements(s, p, acc) ==
  The({
    IF ~t.ok THEN Failure
    ELSE IF At(s, t.pos) = "," THEN ParseElements(s, t.pos + 1, Append(acc, t.val))
    ELSE IF At(s, t.pos) = "]" THEN [ok |-> TRUE, val |-> Append(acc, t.val), pos |-> t.pos + 1]
    ELSE Failure
    : t \in {ParseTask(s, p)} })

ParseArray(s, p) ==
  IF At(s, p) # "[" THEN Failure
  ELSE IF At(s, p + 1) = "]" THEN [ok |-> TRUE, val |-> <<>>, pos |-> p + 2]
  ELSE ParseElements(s, p + 1, <<>>)

\* JSON.parse: [ok, val]; ok = FALSE is the SyntaxError it throws.
JSONParse(s) ==
  LET r == ParseArray(s, 1) IN
    IF r.ok /\ r.pos = Len(s) + 1 THEN [ok |-> TRUE, val |-> r.val]
    ELSE [ok |-> FALSE, val |-> <<>>]

\* ------------------------------------------------------------------ state
VARIABLES
  tasks,              \* let tasks: Task[]
  editingId,          \* let editingId: number | null
  store,              \* localStorage entry "tasks": [present, value]
  clock,              \* Date.now()
  addDisabled,        \* addTodoButton.disabled
  addLoading,         \* addTodoButton has the class "loading"
  addTimers,          \* pending callbacks of the submit handler: [due, text]
  loadTimer,          \* callback of initializeApp: "pending", "done", "raised"
  todoLoaderDisplay,  \* todoLoader.style.display
  todoListDisplay,    \* todoList.style.display
  view,               \* the children of todoList, as renderTasks built them
  lastOp,             \* history: the handler that ran last, with its arguments
  startStore,         \* history: the localStorage entry when the page was loaded
  ai,                 \* whether new GoogleGenAI(...) gave a client
  promptInput,        \* promptInput.value
  selectedRatio,      \* value of the checked aspect-ratio radio button
  resultStyle,        \* resultContainer.style: aspectRatio and maxWidth
  generateDisabled,   \* generateButton.disabled
  generateText,       \* generateButton.textContent
  loaderDisplay,      \* loader.style.display
  imageContainer,     \* the children of imageContainer
  requests            \* calls of ai.models.generateImages that have not settled

\* The to-do list.
todoVars == <<tasks, editingId, store, clock, addDisabled, addLoading, addTimers,
              loadTimer, todoLoaderDisplay, todoListDisplay, view, lastOp, startStore>>

\* The image generator.
imageVars == <<ai, promptInput, selectedRatio, resultStyle, generateDisabled,
               generateText, loaderDisplay, imageContainer, requests>>

\* What no handler of the to-do list assigns.
todoFrame == <<startStore, imageVars>>

vars == <<todoVars, imageVars>>

Op(name, id, text) == [name |-> name, id |-> id, text |-> text]

\* The ids of the tasks of a list.
Ids(ts) == { ts[i].id : i \in 1..Len(ts) }

\* The ids an operation is called with: every id of the list, the cursor,
\* and one id that is in neither.
ArgIds == Ids(tasks) \cup ({editingId} \ {Null}) \cup {AbsentId}

\* Tasks written to the store by earlier sessions of the page.
OldTask1 == [id |-> 400, text |-> <<"a">>, completed |-> TRUE]

OldTask2 == [id |-> 700, text |-> <<"b", Quote>>, completed |-> FALSE]

Absent == [present |-> FALSE, value |-> <<>>]

Stored(v) == [present |-> TRUE, value |-> v]

\* What localStorage may hold under "tasks" when the page is loaded.
InitialStores ==
  { Absent,
    Stored(<<>>),                         \* the empty string
    Stored(<<"[", "{">>),                 \* not JSON
    Stored(Stringify(<<>>)),
    Stored(Stringify(<<OldTask1>>)),
    Stored(Stringify(<<OldTask1, OldTask2>>)) }

\* localStorage.setItem('tasks', JSON.stringify(tasks))
saveTasks(ts) == Stored(Stringify(ts))

\* loadTasks on a task list ts and a store st: [ok, tasks]; ok = FALSE when
\* JSON.parse throws, and then tasks was not assigned.
loadTasks(ts, st) ==
  IF st.present /\ st.value # <<>>
  THEN LET r == JSONParse(st.value) IN
         IF r.ok THEN [ok |-> TRUE, tasks |-> r.val]
         ELSE [ok |-> FALSE, tasks |-> ts]
  ELSE [ok |-> TRUE, tasks |-> ts]

\* renderTasks: one row per task, in list order.
renderTasks(ts, eid) ==
  [i \in 1..Len(ts) |->
     [id |-> ts[i].id, checked |-> ts[i].completed, text |-> ts[i].text,
      mode |-> IF eid = ts[i].id THEN "editing" ELSE "viewing"]]

\* Mutant of toggleMap: marks the task completed instead of flipping the flag.
toggleMapSetTrue(ts, id) ==
  [i \in 1..Len(ts) |->
     IF ts[i].id = id THEN [ts[i] EXCEPT !.completed = TRUE] ELSE ts[i]]

\* tasks.map(task => task.id === id ? {...task, completed: !task.completed} : task)
toggleMap(ts, id) ==
  [i \in 1..Len(ts) |->
     IF ts[i].id = id THEN [ts[i] EXCEPT !.completed = ~ts[i].completed]
     ELSE ts[i]]

\* Mutant of deleteFilter: the comparison inverted.
deleteFilterInverted(ts, id) == SelectSeq(ts, LAMBDA t : t.id = id)

\* tasks.filter(task => task.id !== id)
deleteFilter(ts, id) == SelectSeq(ts, LAMBDA t : t.id # id)

\* Mutant of updateMap: the id is not compared, every task gets the text.
updateMapAll(ts, id, newText) ==
  [i \in 1..Len(ts) |-> [ts[i] EXCEPT !.text = newText]]

\* tasks.map(task => task.id === id ? {...task, text: newText} : task)
updateMap(ts, id, newText) ==
  [i \in 1..Len(ts) |->
     IF ts[i].id = id THEN [ts[i] EXCEPT !.text = newText] ELSE ts[i]]

\* const newTask = {id: Date.now(), text, completed: false}
newTask(now, text) == [id |-> now, text |-> text, completed |-> FALSE]

LoadDue == PageLoadTime + LoadDelay

\* The values the clock takes within the horizon.
ClockValues == { PageLoadTime + k * TimeStep : k \in 0..(Horizon \div TimeStep) }

\* A callback scheduled now with AddDelay runs within the horizon.
CallbackInHorizon == \E c \in ClockValues : c >= clock + AddDelay

\* A timer whose delay has elapsed and whose callback has not run yet.
TimerDue ==
  \/ loadTimer = "pending" /\ clock >= LoadDue
  \/ addTimers # <<>> /\ clock >= Head(addTimers).due

\* ------------------------------------------------------- image generator
\* A generation no longer starts once this many requests are outstanding.
MaxRequests == 2

\* The values of the aspect-ratio radio buttons.
Ratios == {"1:1", "16:9", "9:16"}

\* No radio button is checked.
NoRatio == "none"

\* The keys pressed in the prompt field.
Keys == {"Enter", "a"}

\* What the user may have typed in the prompt field.
PromptTexts == { <<>>, <<"a">>, <<"b">> }

\* updateResultContainerStyle with ratio r checked: the style it leaves on
\* resultContainer, cur being the style before.
updateResultContainerStyle(r, cur) ==
  IF r = NoRatio THEN cur
  ELSE [aspectRatio |-> r,
        maxWidth |-> IF r = "16:9" THEN "100%"
                     ELSE IF r = "9:16" THEN "300px"
                     ELSE "512px"]

\* displayError: the children of imageContainer after it.
displayError(message) == << [kind |-> "error", alt |-> <<>>, message |-> message] >>

\* The img element generateImage appends, with promptInput.value as alt.
imgElement(alt) == [kind |-> "img", alt |-> alt, message |-> ""]

\* ------------------------------------------------------------------- Init
\* The to-do list when initializeApp has returned, with st in localStorage.
TodoInit(st) ==
  /\ tasks = <<>>
  /\ editingId = Null
  /\ store = st
  /\ startStore = st
  /\ clock = PageLoadTime
  /\ addDisabled = FALSE
  /\ addLoading = FALSE
  /\ addTimers = <<>>
  /\ loadTimer = "pending"
  /\ todoLoaderDisplay = "flex"
  /\ todoListDisplay = "none"
  /\ view = <<>>
  /\ lastOp = Op("initializeApp", Null, <<>>)

\* The image generator when initializeApp has returned: a says whether the
\* client was constructed, r is the radio button the page has checked.
ImageInit(a, r) ==
  /\ ai = a
  /\ promptInput = <<>>
  /\ selectedRatio = r
  /\ resultStyle = updateResultContainerStyle(r, [aspectRatio |-> "", maxWidth |-> ""])
  /\ generateDisabled = FALSE
  /\ generateText = "Generate"
  /\ loaderDisplay = ""
  /\ imageContainer = IF a THEN <<>> ELSE displayError("initialize")
  /\ requests = <<>>

\* The page after initializeApp, for the to-do list: every content of the
\* store, and the image generator left alone.
Init ==
  /\ \E st \in InitialStores : TodoInit(st)
  /\ ImageInit(TRUE, "1:1")

\* The page after initializeApp, for the image generator: every outcome of
\* the construction of the client and every checked ratio, and the to-do
\* list left alone.
InitImage ==
  /\ TodoInit(Absent)
  /\ \E a \in BOOLEAN : \E r \in Ratios \cup {NoRatio} : ImageInit(a, r)

\* ---------------------------------------------------------------- actions
\* Time passes; a callback whose delay has elapsed runs before more time does.
Tick ==
  /\ ~TimerDue
  /\ clock + TimeStep <= PageLoadTime + Horizon
  /\ clock' = clock + TimeStep
  /\ UNCHANGED <<tasks, editingId, store, addDisabled, addLoading, addTimers,
                 loadTimer, todoLoaderDisplay, todoListDisplay, view, lastOp,
                 todoFrame>>

\* The callback of initializeApp's setTimeout.  Callbacks run in the order
\* of the times they are due, and this one was scheduled first.
LoadCallback ==
  /\ loadTimer = "pending"
  /\ clock >= LoadDue
  /\ \A i \in 1..Len(addTimers) : addTimers[i].due >= LoadDue
  /\ lastOp' = Op("load", Null, <<>>)
  /\ LET r == loadTasks(tasks, store) IN
       IF r.ok
       THEN /\ tasks' = r.tasks
            /\ view' = renderTasks(r.tasks, editingId)
            /\ todoLoaderDisplay' = "none"
            /\ todoListDisplay' = "flex"
            /\ loadTimer' = "done"
       ELSE /\ loadTimer' = "raised"
            /\ UNCHANGED <<tasks, view, todoLoaderDisplay, todoListDisplay>>
  /\ UNCHANGED <<editingId, store, clock, addDisabled, addLoading, addTimers,
                 todoFrame>>

\* Mutant of SubmitHandler: the text is not checked.
SubmitHandlerNoTextCheck(raw) ==
  LET text == Trim(raw) IN
    /\ ~addDisabled =>
         Len(tasks) + Len(addTimers) < MaxTasks /\ CallbackInHorizon
    /\ lastOp' = Op("submit", Null, raw)
    /\ IF ~addDisabled
       THEN /\ addDisabled' = TRUE
            /\ addLoading' = TRUE
            /\ addTimers' = Append(addTimers, [due |-> clock + AddDelay, text |-> text])
       ELSE UNCHANGED <<addDisabled, addLoading, addTimers>>
    /\ UNCHANGED <<tasks, editingId, store, clock, loadTimer,
                   todoLoaderDisplay, todoListDisplay, view, todoFrame>>

\* Mutant of SubmitHandler: the disabled button is not checked.
SubmitHandlerNoDisabledCheck(raw) ==
  LET text == Trim(raw) IN
    /\ text # <<>> =>
         Len(tasks) + Len(addTimers) < MaxTasks /\ CallbackInHorizon
    /\ lastOp' = Op("submit", Null, raw)
    /\ IF text # <<>>
       THEN /\ addDisabled' = TRUE
            /\ addLoading' = TRUE
            /\ addTimers' = Append(addTimers, [due |-> clock + AddDelay, text |-> text])
       ELSE UNCHANGED <<addDisabled, addLoading, addTimers>>
    /\ UNCHANGED <<tasks, editingId, store, clock, loadTimer,
                   todoLoaderDisplay, todoListDisplay, view, todoFrame>>

\* The submit handler of todoForm, with raw in todoInput.
SubmitHandler(raw) ==
  LET text == Trim(raw) IN
    /\ (text # <<>> /\ ~addDisabled) =>
         Len(tasks) + Len(addTimers) < MaxTasks /\ CallbackInHorizon
    /\ lastOp' = Op("submit", Null, raw)
    /\ IF text # <<>> /\ ~addDisabled
       THEN /\ addDisabled' = TRUE
            /\ addLoading' = TRUE
            /\ addTimers' = Append(addTimers, [due |-> clock + AddDelay, text |-> text])
       ELSE UNCHANGED <<addDisabled, addLoading, addTimers>>
    /\ UNCHANGED <<tasks, editingId, store, clock, loadTimer,
                   todoLoaderDisplay, todoListDisplay, view, todoFrame>>

\* Mutant of addTask: the new task is put at the front of the list.
addTaskUnshift(now, text) ==
  /\ tasks' = <<newTask(now, text)>> \o tasks
  /\ store' = saveTasks(tasks')
  /\ view' = renderTasks(tasks', editingId)

\* addTask(text) at time now.
addTask(now, text) ==
  /\ tasks' = Append(tasks, newTask(now, text))
  /\ store' = saveTasks(tasks')
  /\ view' = renderTasks(tasks', editingId)

\* Mutant of AddCallback: the callback does not wait for the delay.
AddCallbackNoDelay ==
  /\ addTimers # <<>>
  /\ lastOp' = Op("add", Null, Head(addTimers).text)
  /\ addTask(clock, Head(addTimers).text)
  /\ addDisabled' = FALSE
  /\ addLoading' = FALSE
  /\ addTimers' = Tail(addTimers)
  /\ UNCHANGED <<editingId, clock, loadTimer, todoLoaderDisplay, todoListDisplay,
                 todoFrame>>

\* Mutant of AddCallback: the callback also leaves the editing mode.
AddCallbackClearsEdit ==
  /\ addTimers # <<>>
  /\ clock >= Head(addTimers).due
  /\ loadTimer = "pending" => Head(addTimers).due < LoadDue
  /\ lastOp' = Op("add", Null, Head(addTimers).text)
  /\ tasks' = Append(tasks, newTask(clock, Head(addTimers).text))
  /\ store' = saveTasks(tasks')
  /\ editingId' = Null
  /\ view' = renderTasks(tasks', Null)
  /\ addDisabled' = FALSE
  /\ addLoading' = FALSE
  /\ addTimers' = Tail(addTimers)
  /\ UNCHANGED <<clock, loadTimer, todoLoaderDisplay, todoListDisplay, todoFrame>>

\* Mutant of AddCallback: the add button is not enabled again.
AddCallbackStaysDisabled ==
  /\ addTimers # <<>>
  /\ clock >= Head(addTimers).due
  /\ loadTimer = "pending" => Head(addTimers).due < LoadDue
  /\ lastOp' = Op("add", Null, Head(addTimers).text)
  /\ addTask(clock, Head(addTimers).text)
  /\ addTimers' = Tail(addTimers)
  /\ UNCHANGED <<addDisabled, addLoading, editingId, clock, loadTimer,
                 todoLoaderDisplay, todoListDisplay, todoFrame>>

\* The callback of the submit handler's setTimeout.
AddCallback ==
  /\ addTimers # <<>>
  /\ clock >= Head(addTimers).due
  /\ loadTimer = "pending" => Head(addTimers).due < LoadDue
  /\ lastOp' = Op("add", Null, Head(addTimers).text)
  /\ addTask(clock, Head(addTimers).text)
  /\ addDisabled' = FALSE
  /\ addLoading' = FALSE
  /\ addTimers' = Tail(addTimers)
  /\ UNCHANGED <<editingId, clock, loadTimer, todoLoaderDisplay, todoListDisplay,
                 todoFrame>>

\* Mutant of toggleTask: the list is not saved.
toggleTaskNoSave(id) ==
  /\ tasks' = toggleMap(tasks, id)
  /\ view' = renderTasks(tasks', editingId)
  /\ lastOp' = Op("toggle", id, <<>>)
  /\ UNCHANGED <<store, editingId, clock, addDisabled, addLoading, addTimers,
                 loadTimer, todoLoaderDisplay, todoListDisplay, todoFrame>>

toggleTask(id) ==
  /\ tasks' = toggleMap(tasks, id)
  /\ store' = saveTasks(tasks')
  /\ view' = renderTasks(tasks', editingId)
  /\ lastOp' = Op("toggle", id, <<>>)
  /\ UNCHANGED <<editingId, clock, addDisabled, addLoading, addTimers,
                 loadTimer, todoLoaderDisplay, todoListDisplay, todoFrame>>

deleteTask(id) ==
  /\ tasks' = deleteFilter(tasks, id)
  /\ store' = saveTasks(tasks')
  /\ view' = renderTasks(tasks', editingId)
  /\ lastOp' = Op("delete", id, <<>>)
  /\ UNCHANGED <<editingId, clock, addDisabled, addLoading, addTimers,
                 loadTimer, todoLoaderDisplay, todoListDisplay, todoFrame>>

\* Mutant of setEditing: the list is not rendered again.
setEditingNoRender(id) ==
  /\ editingId' = id
  /\ lastOp' = Op("setEditing", id, <<>>)
  /\ UNCHANGED <<tasks, store, view, clock, addDisabled, addLoading, addTimers,
                 loadTimer, todoLoaderDisplay, todoListDisplay, todoFrame>>

\* Mutant of setEditing: the list is saved as after a mutation.
setEditingSaves(id) ==
  /\ editingId' = id
  /\ store' = saveTasks(tasks)
  /\ view' = renderTasks(tasks, id)
  /\ lastOp' = Op("setEditing", id, <<>>)
  /\ UNCHANGED <<tasks, clock, addDisabled, addLoading, addTimers,
                 loadTimer, todoLoaderDisplay, todoListDisplay, todoFrame>>

setEditing(id) ==
  /\ editingId' = id
  /\ view' = renderTasks(tasks, id)
  /\ lastOp' = Op("setEditing", id, <<>>)
  /\ UNCHANGED <<tasks, store, clock, addDisabled, addLoading, addTimers,
                 loadTimer, todoLoaderDisplay, todoListDisplay, todoFrame>>

\* The effect of cancelEditing on the cursor and the view.
cancelEditing ==
  /\ editingId' = Null
  /\ view' = renderTasks(tasks, Null)
  /\ UNCHANGED <<tasks, store>>

\* The effect of updateTaskText on the list, the cursor, the store and the view.
updateTaskText(id, newText) ==
  /\ tasks' = updateMap(tasks, id, newText)
  /\ editingId' = Null
  /\ store' = saveTasks(tasks')
  /\ view' = renderTasks(tasks', Null)

\* Escape in the edit field, or the Cancel button.
CancelEdit ==
  /\ cancelEditing
  /\ lastOp' = Op("cancel", Null, <<>>)
  /\ UNCHANGED <<clock, addDisabled, addLoading, addTimers,
                 loadTimer, todoLoaderDisplay, todoListDisplay, todoFrame>>

\* Mutant of handleSave: the trimmed text is not checked.
handleSaveNoCheck(id, raw) ==
  /\ updateTaskText(id, Trim(raw))
  /\ lastOp' = Op("save", id, raw)
  /\ UNCHANGED <<clock, addDisabled, addLoading, addTimers,
                 loadTimer, todoLoaderDisplay, todoListDisplay, todoFrame>>

\* handleSave of the row of task id (Enter in the edit field), and the Save
\* button of that row, with raw in the edit field.
handleSave(id, raw) ==
  /\ IF Trim(raw) # <<>> THEN updateTaskText(id, Trim(raw)) ELSE cancelEditing
  /\ lastOp' = Op("save", id, raw)
  /\ UNCHANGED <<clock, addDisabled, addLoading, addTimers,
                 loadTimer, todoLoaderDisplay, todoListDisplay, todoFrame>>

Submit == \E raw \in InputTexts : SubmitHandler(raw)

Toggle == \E id \in ArgIds : toggleTask(id)

Delete == \E id \in ArgIds : deleteTask(id)

BeginEdit == \E id \in ArgIds : setEditing(id)

SaveEdit == \E id \in ArgIds : \E raw \in InputTexts : handleSave(id, raw)

Next ==
  \/ Tick
  \/ LoadCallback
  \/ Submit
  \/ AddCallback
  \/ Toggle
  \/ Delete
  \/ BeginEdit
  \/ CancelEdit
  \/ SaveEdit

Spec == Init /\ [][Next]_vars

\* The page with the timers and the add form only: the load, the submits
\* and the delayed adds.  The handlers left out (toggle, delete and the
\* edits) neither read nor assign the clock, the timers, the add button or
\* the loader.
NextTimers ==
  \/ Tick
  \/ LoadCallback
  \/ Submit
  \/ AddCallback

SpecTimers == Init /\ [][NextTimers]_vars

\* Scheduled delays always run: time passes and a callback whose delay has
\* elapsed is run.
SpecTimersLive ==
  /\ SpecTimers
  /\ WF_vars(Tick)
  /\ WF_vars(AddCallback)
  /\ WF_vars(LoadCallback)

\* ------------------------------------------------ image generator actions
\* setLoading(isLoading)
setLoading(isLoading) ==
  /\ loaderDisplay' = (IF isLoading THEN "block" ELSE "none")
  /\ generateDisabled' = isLoading
  /\ generateText' = (IF isLoading THEN "Generating..." ELSE "Generate")

\* generateImage up to its await: the request is sent.
generateImage ==
  /\ (promptInput # <<>> /\ ai) => Len(requests) < MaxRequests
  /\ IF promptInput = <<>> \/ ~ai
     THEN UNCHANGED <<generateDisabled, generateText, loaderDisplay,
                      imageContainer, requests>>
     ELSE /\ setLoading(TRUE)
          /\ imageContainer' = <<>>
          /\ requests' = Append(requests,
               [prompt |-> promptInput,
                aspectRatio |-> IF selectedRatio = NoRatio THEN "1:1" ELSE selectedRatio])
  /\ UNCHANGED <<ai, promptInput, selectedRatio, resultStyle, todoVars>>

\* A click on generateButton; a disabled button receives no click.
ClickGenerate ==
  /\ ~generateDisabled
  /\ generateImage

\* The keypress listener of promptInput.
keypressListener(key) ==
  IF key = "Enter" THEN generateImage ELSE UNCHANGED vars

RemoveAt(q, i) == SubSeq(q, 1, i - 1) \o SubSeq(q, i + 1, Len(q))

\* generateImage after its await, request i fulfilled with an image.
RequestFulfilled(i) ==
  /\ imageContainer' = Append(imageContainer, imgElement(promptInput))
  /\ setLoading(FALSE)
  /\ requests' = RemoveAt(requests, i)
  /\ UNCHANGED <<ai, promptInput, selectedRatio, resultStyle, todoVars>>

\* generateImage after its await, request i rejected or without an image.
RequestRejected(i) ==
  /\ imageContainer' = displayError("generate")
  /\ setLoading(FALSE)
  /\ requests' = RemoveAt(requests, i)
  /\ UNCHANGED <<ai, promptInput, selectedRatio, resultStyle, todoVars>>

\* The user edits the prompt field.
TypePrompt(p) ==
  /\ promptInput' = p
  /\ UNCHANGED <<ai, selectedRatio, resultStyle, generateDisabled, generateText,
                 loaderDisplay, imageContainer, requests, todoVars>>

\* The change listener of the radio buttons, r being checked.
ChangeRatio(r) ==
  /\ selectedRatio' = r
  /\ resultStyle' = updateResultContainerStyle(r, resultStyle)
  /\ UNCHANGED <<ai, promptInput, generateDisabled, generateText,
                 loaderDisplay, imageContainer, requests, todoVars>>

Keypress == \E key \in Keys : keypressListener(key)

Fulfil == \E i \in 1..Len(requests) : RequestFulfilled(i)

Reject == \E i \in 1..Len(requests) : RequestRejected(i)

Type == \E p \in PromptTexts : TypePrompt(p)

SelectRatio == \E r \in Ratios : ChangeRatio(r)

NextImage ==
  \/ ClickGenerate
  \/ Keypress
  \/ Fulfil
  \/ Reject
  \/ Type
  \/ SelectRatio

SpecImage == InitImage /\ [][NextImage]_vars

\* ------------------------------------------------------------------ types
TypeOK ==
  /\ \A i \in 1..Len(tasks) : tasks[i].id \in Nat /\ tasks[i].completed \in BOOLEAN
  /\ editingId \in Nat \cup {Null}
  /\ addDisabled \in BOOLEAN
  /\ loadTimer \in {"pending", "done", "raised"}

\* ----------------------------------------------------------------- claims
\* The step is a run of the handler called name (time passing leaves lastOp).
Ran(name) == lastOp'.name = name /\ clock' = clock

\* The last handler changed the list: add, toggle, delete, or a save whose
\* trimmed text is not empty.
Mutated ==
  \/ lastOp.name \in {"add", "toggle", "delete"}
  \/ lastOp.name = "save" /\ Trim(lastOp.text) # <<>>

\* C1: the editing cursor is none or the id of a task of the list.
EditingCursorInList == editingId = Null \/ editingId \in Ids(tasks)

\* C2: a delete of the task the editing cursor is on clears the cursor.
DeleteClearsCursor ==
  [][(Ran("delete") /\ editingId = lastOp'.id /\ editingId \in Ids(tasks)) =>
       editingId' = Null]_vars

\* C3: after every mutating operation the store holds the serialization of
\* the whole list, and a fresh load from it yields the list.
StoreRoundTrips ==
  Mutated =>
    /\ store = Stored(Stringify(tasks))
    /\ loadTasks(<<>>, store) = [ok |-> TRUE, tasks |-> tasks]

StoreRoundTripsWitness ==
  /\ lastOp.name = "toggle"
  /\ Len(tasks) >= 2
  /\ \E i \in 1..Len(tasks) : \E k \in 1..Len(tasks[i].text) : tasks[i].text[k] = Quote
  /\ \E i \in 1..Len(tasks) : tasks[i].completed

\* C4: the load never raises; with no stored value or one that does not
\* parse it completes normally and the list is empty.
LoadNeverRaises ==
  lastOp.name = "load" =>
    /\ loadTimer = "done"
    /\ (~store.present \/ ~JSONParse(store.value).ok) => tasks = <<>>

\* C5: a submit whose trimmed text is empty changes nothing and schedules
\* no delayed add.
EmptySubmitIsNoOp ==
  [][(Ran("submit") /\ Trim(lastOp'.text) = <<>>) =>
       UNCHANGED <<tasks, store, editingId, addDisabled, addLoading, addTimers, view>>]_vars

EmptySubmitWitness ==
  /\ lastOp.name = "submit"
  /\ lastOp.text # <<>>
  /\ Trim(lastOp.text) = <<>>
  /\ tasks # <<>>
  /\ ~addDisabled

\* C6: an accepted submit schedules its trimmed, non-empty text, and the
\* delayed add appends one task with that text, not completed, at the end
\* of the list.
AddAppendsOne ==
  [][/\ (Ran("submit") /\ addTimers' # addTimers) =>
          /\ Trim(lastOp'.text) # <<>>
          /\ Len(addTimers') = Len(addTimers) + 1
          /\ addTimers'[Len(addTimers')].text = Trim(lastOp'.text)
     /\ Ran("add") =>
          /\ Len(tasks') = Len(tasks) + 1
          /\ SubSeq(tasks', 1, Len(tasks)) = tasks
          /\ tasks'[Len(tasks')].text = Head(addTimers).text
          /\ tasks'[Len(tasks')].completed = FALSE]_vars

AddAppendsOneWitness ==
  /\ lastOp.name = "add"
  /\ Len(tasks) >= 2
  /\ tasks[Len(tasks)].text = <<"b", Quote>>
  /\ tasks[1].completed

\* C7: no two tasks of the list have the same id.
UniqueIds ==
  \A i, j \in 1..Len(tasks) : i # j => tasks[i].id # tasks[j].id

UniqueIdsWitness ==
  /\ loadTimer = "done"
  /\ Len(tasks) >= 3
  /\ lastOp.name = "add"
  /\ tasks[1].id < PageLoadTime

\* C8: while a delayed add is pending the add button is disabled and a
\* submit changes nothing, so at most one add is pending; the list grows
\* (other than by the load) only by one task per pending add that fires.
OneAddInFlight ==
  /\ [](Len(addTimers) <= 1 /\ (addTimers # <<>> => addDisabled))
  /\ [][/\ (Ran("submit") /\ addTimers # <<>>) =>
             UNCHANGED <<tasks, store, editingId, addDisabled, addTimers>>
        /\ Len(addTimers') > Len(addTimers) =>
             Ran("submit") /\ Len(addTimers') = Len(addTimers) + 1
        /\ (Len(tasks') > Len(tasks) /\ ~Ran("load")) =>
             /\ Ran("add")
             /\ Len(tasks') = Len(tasks) + 1
             /\ Len(addTimers') = Len(addTimers) - 1]_vars

\* A submit of another text while a delayed add is pending.
OneAddInFlightWitness ==
  /\ lastOp.name = "submit"
  /\ Trim(lastOp.text) # <<>>
  /\ addTimers # <<>>
  /\ Head(addTimers).text # Trim(lastOp.text)

\* C9: two toggles of an id give the list back; one toggle flips the
\* completed flag of the tasks with that id and changes no id, no text, not
\* the order and not the editing cursor.
ToggleFlipsOne ==
  /\ [](\A id \in ArgIds : toggleMap(toggleMap(tasks, id), id) = tasks)
  /\ [][Ran("toggle") =>
          /\ Len(tasks') = Len(tasks)
          /\ \A i \in 1..Len(tasks) :
               /\ tasks'[i].id = tasks[i].id
               /\ tasks'[i].text = tasks[i].text
               /\ tasks'[i].completed =
                    (IF tasks[i].id = lastOp'.id THEN ~tasks[i].completed
                     ELSE tasks[i].completed)
          /\ editingId' = editingId]_vars

ToggleFlipsOneWitness ==
  /\ lastOp.name = "toggle"
  /\ Len(tasks) >= 2
  /\ editingId \in Ids(tasks)
  /\ \E i \in 1..Len(tasks) : tasks[i].id = lastOp.id /\ ~tasks[i].completed

\* C10: a delete removes the task with the id and leaves the others as they
\* were, in their order; a delete of an absent id leaves the list as it was.
DeleteRemovesOne ==
  [][Ran("delete") =>
       IF lastOp'.id \in Ids(tasks)
       THEN \E k \in 1..Len(tasks) :
              /\ tasks[k].id = lastOp'.id
              /\ tasks' = SubSeq(tasks, 1, k - 1) \o SubSeq(tasks, k + 1, Len(tasks))
       ELSE tasks' = tasks]_vars

\* The first of the stored tasks was deleted and the ones after it remain.
DeleteRemovesOneWitness ==
  /\ lastOp.name = "delete"
  /\ lastOp.id = OldTask1.id
  /\ Len(tasks) >= 2
  /\ tasks[1] = OldTask2

\* The rows of the view that are in editing mode.
EditingRows(v) == { i \in 1..Len(v) : v[i].mode = "editing" }

\* Everything of the to-do list but the cursor, the view and the history.
todoRest == <<tasks, store, clock, addDisabled, addLoading, addTimers,
              loadTimer, todoLoaderDisplay, todoListDisplay>>

\* C11: a save with empty or whitespace-only text ends in the state a
\* cancel ends in: the cursor is none, the list and the store are as they
\* were, and the view shows the list with no row in editing mode.
BlankSaveIsCancel ==
  [][((Ran("save") /\ Trim(lastOp'.text) = <<>>) \/ Ran("cancel")) =>
       /\ editingId' = Null
       /\ view' = renderTasks(tasks, Null)
       /\ UNCHANGED todoRest]_vars

\* A blank save on the task that was being edited.
BlankSaveIsCancelWitness ==
  /\ lastOp.name = "save"
  /\ lastOp.text = <<Space, Space>>
  /\ lastOp.id \in Ids(tasks)
  /\ editingId = Null
  /\ Len(tasks) >= 2

\* C12: a save with non-empty trimmed text gives that text to the task
\* with the id, clears the cursor and changes no completed flag, no other
\* task and not the order.
SaveSetsText ==
  [][(Ran("save") /\ Trim(lastOp'.text) # <<>>) =>
       /\ editingId' = Null
       /\ Len(tasks') = Len(tasks)
       /\ \A i \in 1..Len(tasks) :
            /\ tasks'[i].id = tasks[i].id
            /\ tasks'[i].completed = tasks[i].completed
            /\ tasks'[i].text =
                 (IF tasks[i].id = lastOp'.id THEN Trim(lastOp'.text)
                  ELSE tasks[i].text)]_vars

\* The scenario of the spec: two tasks added in this session, the first
\* toggled, the second saved with a new text.
SaveSetsTextWitness ==
  /\ lastOp.name = "save"
  /\ Len(tasks) = 2
  /\ tasks[1].id >= PageLoadTime
  /\ tasks[1].completed
  /\ tasks[1].text = <<"a">>
  /\ tasks[2].id = lastOp.id
  /\ tasks[2].text = <<"b", Quote>>
  /\ lastOp.text = <<Space, "b", Quote, Space>>
  /\ ~tasks[2].completed
  /\ editingId = Null

\* C13: the view has one row per task, in list order; the rows in editing
\* mode are the rows of the task the cursor is on, at most one; a begin
\* edit of a task of the list leaves that task's row as the one editing row.
OneEditingRow ==
  /\ [](/\ Len(view) = Len(tasks)
        /\ \A i \in 1..Len(view) :
             /\ view[i].id = tasks[i].id
             /\ view[i].mode \in {"editing", "viewing"}
             /\ view[i].mode = "editing" <=> tasks[i].id = editingId
        /\ Cardinality(EditingRows(view)) <= 1)
  /\ [][(Ran("setEditing") /\ lastOp'.id \in Ids(tasks)) =>
          /\ Cardinality(EditingRows(view')) = 1
          /\ \A i \in EditingRows(view') : view'[i].id = lastOp'.id]_vars

\* The editing row is the second of three rows.
OneEditingRowWitness ==
  /\ lastOp.name = "setEditing"
  /\ Len(view) >= 3
  /\ EditingRows(view) = {2}

\* C14: begin edit and cancel edit leave the list and the store as they
\* were, and after a cancel the cursor is none.
EditFrame ==
  [][/\ (Ran("setEditing") \/ Ran("cancel")) => UNCHANGED todoRest
     /\ Ran("setEditing") => editingId' = lastOp'.id
     /\ Ran("cancel") => editingId' = Null]_vars

\* A begin edit before the load, while the store holds tasks the list
\* does not have.
EditFrameWitness ==
  /\ lastOp.name = "setEditing"
  /\ loadTimer = "pending"
  /\ store = Stored(Stringify(<<OldTask1, OldTask2>>))
  /\ tasks = <<>>

\* C15: the generate button is disabled whenever a generation request is
\* outstanding.
TriggerDisabledWhileOutstanding == requests # <<>> => generateDisabled

\* The texts a submit can schedule.
AddTexts == { Trim(raw) : raw \in InputTexts } \ { <<>> }

\* C16: every accepted submit is followed by its callback: the task is at
\* the end of the list, the list is in the store, and the add button is
\* enabled again.
AddCompletes ==
  \A t \in AddTexts :
    (addTimers # <<>> /\ Head(addTimers).text = t) ~>
      (/\ lastOp = Op("add", Null, t)
       /\ addTimers = <<>>
       /\ ~addDisabled
       /\ ~addLoading
       /\ tasks # <<>>
       /\ tasks[Len(tasks)].text = t
       /\ store = Stored(Stringify(tasks)))

\* The add submitted after the load has completed.
AddCompletesWitness ==
  /\ lastOp.name = "add"
  /\ loadTimer = "done"
  /\ ~addDisabled
  /\ tasks # <<>>
  /\ tasks[Len(tasks)].id > LoadDue

\* C17: until the load has run the loader is shown and the list hidden,
\* and whatever the store holds the loader is eventually hidden and the
\* list shown.
LoaderEventuallyHidden ==
  /\ [](loadTimer = "pending" =>
          todoLoaderDisplay = "flex" /\ todoListDisplay = "none")
  /\ <>(todoLoaderDisplay = "none" /\ todoListDisplay = "flex")

\* The tasks the store held when the page was loaded.
StartTasks == loadTasks(<<>>, startStore).tasks

\* C18: once the load and the delayed adds have run, the list and the
\* store hold the tasks the store held when the page was loaded, in their
\* order, followed by the tasks added since.
NoStoredTaskLost ==
  (/\ loadTimer = "done"
   /\ addTimers = <<>>
   /\ \E i \in 1..Len(tasks) : tasks[i].id >= PageLoadTime) =>
    /\ Len(tasks) > Len(StartTasks)
    /\ SubSeq(tasks, 1, Len(StartTasks)) = StartTasks
    /\ \A i \in (Len(StartTasks) + 1)..Len(tasks) : tasks[i].id >= PageLoadTime
    /\ store = Stored(Stringify(tasks))

\* C19: the delayed add and a toggle leave the editing cursor as it was,
\* and the row in editing mode is the same row after them.
AddAndToggleKeepCursor ==
  [][(Ran("add") \/ Ran("toggle")) =>
       /\ editingId' = editingId
       /\ \A i \in 1..Len(view) :
            /\ i <= Len(view')
            /\ view'[i].id = view[i].id
            /\ view'[i].mode = view[i].mode]_vars

\* A delayed add fired while the first row was in editing mode.
AddAndToggleKeepCursorWitness ==
  /\ lastOp.name = "add"
  /\ Len(view) >= 2
  /\ EditingRows(view) = {1}
  /\ editingId = tasks[1].id

====
